---- MODULE Spec2Model ----
(***************************************************************************)
(* Model of the two maintenance scripts of the GPS tracker repository:     *)
(*   update_version.py  - the version synchronizer                         *)
(*   clean_emojis.py    - the emoji cleaner                                *)
(* Text is a sequence of Unicode code points; a file is a record with an   *)
(* existence flag and its text.                                            *)
(***************************************************************************)
EXTENDS Integers, Sequences, FiniteSets, TLC

VARIABLES
    \* ---- version synchronizer ----
    files,        \* VERSION, main/version.h, README.md on disk
    pre,          \* the three files as they were when the invocation started
    pc,           \* position of the current invocation
    opt,          \* the command line option selected
    arg,          \* the text given to --version (or to a unit call)
    kind,         \* the value given to --bump
    new_version,  \* the version being propagated
    error,        \* the exception that ended the invocation, "" if none
    written,      \* targets written by this invocation, in order
    shown,        \* the three next versions printed by --show
    runs,         \* invocations started so far
    \* ---- emoji cleaner ----
    disk,         \* path -> file, the candidate files and their backups
    start,        \* disk as it was when the current cleaner run started
    cpc,          \* position of the cleaner
    todo,         \* main-tree candidates os.walk has not yielded yet
    extra_idx,    \* index into extra_files
    cur,          \* file being processed by clean_emojis_from_file
    content,      \* the text read from cur
    original_content,
    outcome,      \* path -> what clean_emojis_from_file did in this run
    prev_outcome, \* outcome of the previous run
    files_cleaned,
    cruns,        \* cleaner runs started so far
    faults        \* I/O failures injected so far

vvars == <<files, pre, pc, opt, arg, kind, new_version, error, written, shown, runs>>
cvars == <<disk, start, cpc, todo, extra_idx, cur, content, original_content,
           outcome, prev_outcome, files_cleaned, cruns, faults>>
vars == <<vvars, cvars>>

(***************************************************************************)
(* Bounds of the model.                                                    *)
(***************************************************************************)
MaxRuns == 2       \* invocations of the version synchronizer
MaxArgLen == 6     \* length of the texts given to the unit calls
MaxCleanRuns == 2  \* runs of the emoji cleaner
MaxGlyphLen == 4   \* length of the glyph-alphabet contents
MaxBodyLen == 2    \* length of the log-literal bodies
MaxFaults == 1     \* I/O failures in one behaviour

(***************************************************************************)
(* Characters.                                                             *)
(***************************************************************************)
LF == 10
TAB == 9
SPACE == 32
QUOTE == 34
DASH == 45
DOT == 46
ZERO == 48
ARABIC_ZERO == 1632   \* U+0660, a decimal digit outside ASCII
INVALID == 65536      \* a byte sequence that is not valid UTF-8

\* \d of Python's re on str: any Unicode decimal digit; ASCII and the
\* Arabic-Indic block stand for them here.
IsDigit(c) == c \in ZERO..(ZERO + 9) \/ c \in ARABIC_ZERO..(ARABIC_ZERO + 9)

DigitValue(c) == IF c \in ZERO..(ZERO + 9) THEN c - ZERO ELSE c - ARABIC_ZERO

\* Whitespace, as str.strip() and \s of re see it on str: the ASCII
\* whitespace and, standing for the rest of Unicode's, the no-break space.
IsSpace(c) == c \in {SPACE, TAB, LF, 11, 12, 13, 160}

RECURSIVE LStrip(_)
LStrip(s) == IF s # <<>> /\ IsSpace(Head(s)) THEN LStrip(Tail(s)) ELSE s

RECURSIVE RStrip(_)
RStrip(s) ==
    IF s # <<>> /\ IsSpace(s[Len(s)]) THEN RStrip(SubSeq(s, 1, Len(s) - 1)) ELSE s

Strip(s) == LStrip(RStrip(s))

\* int(text) on a run of digits.
RECURSIVE ToInt(_)
ToInt(s) ==
    IF s = <<>> THEN 0
    ELSE 10 * ToInt(SubSeq(s, 1, Len(s) - 1)) + DigitValue(s[Len(s)])

\* str(n) for n >= 0, as the f-strings format an int.
RECURSIVE ToStr(_)
ToStr(n) ==
    IF n < 10 THEN <<ZERO + n>> ELSE ToStr(n \div 10) \o <<ZERO + (n % 10)>>

StartsAt(s, i, p) ==
    /\ i + Len(p) - 1 <= Len(s)
    /\ \A k \in 1..Len(p) : s[i + k - 1] = p[k]

\* Length of the longest run of digits of s that starts at i.
RECURSIVE DigitRun(_, _)
DigitRun(s, i) ==
    IF i <= Len(s) /\ IsDigit(s[i]) THEN 1 + DigitRun(s, i + 1) ELSE 0

Min(S) == CHOOSE x \in S : \A y \in S : x <= y

\* Length of the longest run of characters other than c that starts at i.
RunNot(s, i, c) ==
    LET hits == {j \in i..Len(s) : s[j] = c}
    IN  IF hits = {} THEN Len(s) + 1 - i ELSE Min(hits) - i

(***************************************************************************)
(* update_version.py: pure functions.                                      *)
(***************************************************************************)
VERSION_FILE == "VERSION"
VERSION_H == "main/version.h"
README_FILE == "README.md"
Targets == {VERSION_FILE, VERSION_H, README_FILE}

Missing == [exists |-> FALSE, text |-> <<>>]
File(t) == [exists |-> TRUE, text |-> t]

Raised == [ok |-> FALSE, val |-> <<>>]
Returned(v) == [ok |-> TRUE, val |-> v]

\* Segments of s between dots.
RECURSIVE SplitDots(_)
SplitDots(s) ==
    LET n == RunNot(s, 1, DOT)
    IN  IF n = Len(s) THEN <<s>>
        ELSE <<SubSeq(s, 1, n)>> \o SplitDots(SubSeq(s, n + 2, Len(s)))

IsDigits(s) == s # <<>> /\ \A k \in 1..Len(s) : IsDigit(s[k])

\* re.match(r'^(\d+)\.(\d+)\.(\d+)$', s): without re.MULTILINE, $ matches at
\* the end of the text and also just before a newline that ends the text.
MatchGroupsStrict(s) ==
    LET g == SplitDots(s)
    IN  IF Len(g) = 3 /\ \A k \in 1..3 : IsDigits(g[k]) THEN Returned(g) ELSE Raised

MatchGroups(s) ==
    LET body == IF s # <<>> /\ s[Len(s)] = LF THEN SubSeq(s, 1, Len(s) - 1) ELSE s
    IN  MatchGroupsStrict(body)

parse_version_swapped(version_str) ==
    LET m == MatchGroups(version_str)
    IN  IF ~m.ok THEN Raised
        ELSE Returned(<<ToInt(m.val[1]), ToInt(m.val[3]), ToInt(m.val[2])>>)

parse_version(version_str) ==
    LET m == MatchGroups(version_str)
    IN  IF ~m.ok THEN Raised
        ELSE Returned(<<ToInt(m.val[1]), ToInt(m.val[2]), ToInt(m.val[3])>>)

\* f"{major}.{minor}.{patch}"
FormatVersion(major, minor, patch) ==
    ToStr(major) \o <<DOT>> \o ToStr(minor) \o <<DOT>> \o ToStr(patch)

BumpTypes == {"major", "minor", "patch"}

bump_version_keep_minor(current_version, bump_type) ==
    LET p == parse_version(current_version)
    IN  IF ~p.ok THEN Raised
        ELSE CASE bump_type = "major" ->
                    Returned(FormatVersion(p.val[1] + 1, p.val[2], 0))
               [] bump_type = "minor" ->
                    Returned(FormatVersion(p.val[1], p.val[2] + 1, 0))
               [] bump_type = "patch" ->
                    Returned(FormatVersion(p.val[1], p.val[2], p.val[3] + 1))
               [] OTHER -> Raised

bump_version(current_version, bump_type) ==
    LET p == parse_version(current_version)
    IN  IF ~p.ok THEN Raised
        ELSE CASE bump_type = "major" ->
                    Returned(FormatVersion(p.val[1] + 1, 0, 0))
               [] bump_type = "minor" ->
                    Returned(FormatVersion(p.val[1], p.val[2] + 1, 0))
               [] bump_type = "patch" ->
                    Returned(FormatVersion(p.val[1], p.val[2], p.val[3] + 1))
               [] OTHER -> Raised

read_current_version_default(fs) == <<ZERO, DOT, ZERO, DOT, ZERO>>

read_current_version(fs) ==
    IF fs[VERSION_FILE].exists THEN Strip(fs[VERSION_FILE].text)
    ELSE <<ZERO, DOT, ZERO, DOT, ZERO>>

\* '#define PROJECT_VERSION_MAJOR '
DefineMajor ==
    <<35, 100, 101, 102, 105, 110, 101, 32, 80, 82, 79, 74, 69, 67, 84, 95, 86,
      69, 82, 83, 73, 79, 78, 95, 77, 65, 74, 79, 82, 32>>
\* '#define PROJECT_VERSION_MINOR '
DefineMinor ==
    <<35, 100, 101, 102, 105, 110, 101, 32, 80, 82, 79, 74, 69, 67, 84, 95, 86,
      69, 82, 83, 73, 79, 78, 95, 77, 73, 78, 79, 82, 32>>
\* '#define PROJECT_VERSION_PATCH '
DefinePatch ==
    <<35, 100, 101, 102, 105, 110, 101, 32, 80, 82, 79, 74, 69, 67, 84, 95, 86,
      69, 82, 83, 73, 79, 78, 95, 80, 65, 84, 67, 72, 32>>
\* '#define PROJECT_VERSION_STRING "'
DefineString ==
    <<35, 100, 101, 102, 105, 110, 101, 32, 80, 82, 79, 74, 69, 67, 84, 95, 86,
      69, 82, 83, 73, 79, 78, 95, 83, 84, 82, 73, 78, 71, 32, 34>>
\* '[![Version](https://img.shields.io/badge/version-'
BadgeHead ==
    <<91, 33, 91, 86, 101, 114, 115, 105, 111, 110, 93, 40, 104, 116, 116, 112,
      115, 58, 47, 47, 105, 109, 103, 46, 115, 104, 105, 101, 108, 100, 115, 46,
      105, 111, 47, 98, 97, 100, 103, 101, 47, 118, 101, 114, 115, 105, 111,
      110, 45>>
\* '-blue.svg)]'
BadgeTail == <<45, 98, 108, 117, 101, 46, 115, 118, 103, 41, 93>>

\* re.sub(prefix + r'\d+', repl, s)
\* The scan goes left to right: the next match is the leftmost one at or
\* after i, and the scan resumes right after it.
DigitsMatchLen(prefix, s, j) ==
    IF StartsAt(s, j, prefix) /\ DigitRun(s, j + Len(prefix)) > 0
    THEN Len(prefix) + DigitRun(s, j + Len(prefix)) ELSE 0

RECURSIVE SubDigits(_, _, _, _)
SubDigits(prefix, repl, s, i) ==
    LET starts == {j \in i..Len(s) : DigitsMatchLen(prefix, s, j) > 0}
    IN  IF starts = {} THEN SubSeq(s, i, Len(s))
        ELSE LET m == Min(starts)
             IN  SubSeq(s, i, m - 1) \o repl
                     \o SubDigits(prefix, repl, s, m + DigitsMatchLen(prefix, s, m))

\* re.sub(prefix + r'[^"]*"', repl, s), the prefix ending in the opening quote
QuotedMatchLen(prefix, s, j) ==
    IF /\ StartsAt(s, j, prefix)
       /\ j + Len(prefix) + RunNot(s, j + Len(prefix), QUOTE) <= Len(s)
    THEN Len(prefix) + RunNot(s, j + Len(prefix), QUOTE) + 1 ELSE 0

RECURSIVE SubQuoted(_, _, _, _)
SubQuoted(prefix, repl, s, i) ==
    LET starts == {j \in i..Len(s) : QuotedMatchLen(prefix, s, j) > 0}
    IN  IF starts = {} THEN SubSeq(s, i, Len(s))
        ELSE LET m == Min(starts)
             IN  SubSeq(s, i, m - 1) \o repl
                     \o SubQuoted(prefix, repl, s, m + QuotedMatchLen(prefix, s, m))

\* re.sub(head + r'[^-]+' + tail, repl, s), the tail starting with a dash
BadgeMatchLen(head, tail, s, j) ==
    IF /\ StartsAt(s, j, head)
       /\ RunNot(s, j + Len(head), DASH) > 0
       /\ StartsAt(s, j + Len(head) + RunNot(s, j + Len(head), DASH), tail)
    THEN Len(head) + RunNot(s, j + Len(head), DASH) + Len(tail) ELSE 0

RECURSIVE SubBadge(_, _, _, _, _)
SubBadge(head, tail, repl, s, i) ==
    LET starts == {j \in i..Len(s) : BadgeMatchLen(head, tail, s, j) > 0}
    IN  IF starts = {} THEN SubSeq(s, i, Len(s))
        ELSE LET m == Min(starts)
             IN  SubSeq(s, i, m - 1) \o repl
                     \o SubBadge(head, tail, repl, s, m + BadgeMatchLen(head, tail, s, m))

\* The text update_version_h writes, given the text it read.
version_h_text_swapped(new, text) ==
    LET p  == parse_version(new).val
        c1 == SubDigits(DefineMajor, DefineMajor \o ToStr(p[1]), text, 1)
        c2 == SubDigits(DefineMinor, DefineMinor \o ToStr(p[3]), c1, 1)
        c3 == SubDigits(DefinePatch, DefinePatch \o ToStr(p[2]), c2, 1)
    IN  SubQuoted(DefineString, DefineString \o new \o <<QUOTE>>, c3, 1)

version_h_text(new, text) ==
    LET p  == parse_version(new).val
        c1 == SubDigits(DefineMajor, DefineMajor \o ToStr(p[1]), text, 1)
        c2 == SubDigits(DefineMinor, DefineMinor \o ToStr(p[2]), c1, 1)
        c3 == SubDigits(DefinePatch, DefinePatch \o ToStr(p[3]), c2, 1)
    IN  SubQuoted(DefineString, DefineString \o new \o <<QUOTE>>, c3, 1)

\* The text update_readme writes, given the text it read.
readme_text(new, text) ==
    SubBadge(BadgeHead, BadgeTail, BadgeHead \o new \o BadgeTail, text, 1)

(***************************************************************************)
(* update_version.py: the files and inputs the model draws from.           *)
(***************************************************************************)
\* "#pragma once\n"
HeaderGuard == <<35, 112, 114, 97, 103, 109, 97, 32, 111, 110, 99, 101, 10>>
\* "# GPS Tracker\n"
ReadmeTitle == <<35, 32, 71, 80, 83, 32, 84, 114, 97, 99, 107, 101, 114, 10>>

V_1_2_3 == <<49, 46, 50, 46, 51>>
V_1_0_0_beta == <<49, 46, 48, 46, 48, 45, 98, 101, 116, 97>>

HeaderFull ==
    HeaderGuard \o DefineMajor \o <<49, LF>> \o DefineMinor \o <<50, LF>>
        \o DefinePatch \o <<51, LF>> \o DefineString \o V_1_2_3 \o <<QUOTE, LF>>

\* A header that defines only the major and minor components.
HeaderPartial ==
    HeaderGuard \o DefineMajor \o <<49, LF>> \o DefineMinor \o <<50, LF>>

ReadmeBadge == ReadmeTitle \o BadgeHead \o V_1_2_3 \o BadgeTail \o <<LF>>

\* A badge whose version segment holds a dash: the pattern does not match it.
ReadmeOddBadge == ReadmeTitle \o BadgeHead \o V_1_0_0_beta \o BadgeTail \o <<LF>>

InitVersionFiles == {Missing, File(V_1_2_3 \o <<LF>>), File(<<49, 46, 50>> \o <<LF>>),
                     File(<<SPACE>> \o <<50, 46, 48, 46, 57>> \o <<SPACE, LF>>)}
InitHeaders == {Missing, File(HeaderFull), File(HeaderPartial)}
InitReadmes == {Missing, File(ReadmeBadge), File(ReadmeOddBadge)}

\* Texts given to --version: "2.0.0", "1.2", "1.2.x", "v1.2.3", "01.2.3",
\* "1.2.3\n", "" and "٣.0.1".
VersionArgs ==
    { <<50, 46, 48, 46, 48>>, <<49, 46, 50>>, <<49, 46, 50, 46, 120>>, <<118, 49, 46, 50, 46, 51>>, <<48, 49, 46, 50, 46, 51>>,
      V_1_2_3 \o <<LF>>, <<>>, <<ARABIC_ZERO + 3, DOT, ZERO, DOT, 49>> }

Options == {"--show", "--version", "--bump", "none"}
BumpArgs == BumpTypes \cup {"huge"}

\* Inputs of the unit calls: every text over a small alphabet.
UnitAlphabet == {ZERO, ZERO + 9, DOT, LF, ARABIC_ZERO + 3}

RECURSIVE TextsOver(_, _)
TextsOver(alphabet, n) ==
    IF n = 0 THEN {<<>>}
    ELSE LET shorter == TextsOver(alphabet, n - 1)
         IN  shorter \cup {Append(t, c) : t \in {u \in shorter : Len(u) = n - 1},
                                          c \in alphabet}

UnitTexts == TextsOver(UnitAlphabet, MaxArgLen) \cup VersionArgs
UnitKinds == BumpTypes \cup {"huge"}

(***************************************************************************)
(* update_version.py: the invocation as a state machine.                   *)
(***************************************************************************)
Finished == {"idle", "done", "error"}

update_all_files_h_first == <<"update_version_h", "update_version_file", "update_readme">>

\* The order in which update_all_files calls the three writers.
update_all_files == <<"update_version_file", "update_version_h", "update_readme">>

StepAfter(step) ==
    LET i == CHOOSE k \in 1..Len(update_all_files) : update_all_files[k] = step
    IN  IF i = Len(update_all_files) THEN "done" ELSE update_all_files[i + 1]

\* The three next versions show_version_info prints.
show_version_info(fs) ==
    LET current == read_current_version(fs)
    IN  IF ~parse_version(current).ok THEN Raised
        ELSE Returned(<<bump_version(current, "major").val,
                        bump_version(current, "minor").val,
                        bump_version(current, "patch").val>>)

Fail(e) ==
    /\ pc' = "error"
    /\ error' = e
    /\ new_version' = <<>>
    /\ shown' = <<>>

Propagate(v) ==
    /\ pc' = update_all_files[1]
    /\ error' = ""
    /\ new_version' = v
    /\ shown' = <<>>

\* main(): argument parsing and the branch taken, up to update_all_files.
main(o, a, k) ==
    /\ UNCHANGED cvars
    /\ pc \in Finished
    /\ runs < MaxRuns
    /\ runs' = runs + 1
    /\ pre' = files
    /\ opt' = o
    /\ arg' = a
    /\ kind' = k
    /\ written' = <<>>
    /\ UNCHANGED files
    /\ CASE o = "none" \/ (o = "--bump" /\ k \notin BumpTypes) ->
                Fail("SystemExit")
         [] o = "--show" ->
                LET r == show_version_info(files)
                IN  IF ~r.ok THEN Fail("ValueError")
                    ELSE /\ pc' = "done"
                         /\ error' = ""
                         /\ new_version' = <<>>
                         /\ shown' = r.val
         [] o = "--version" /\ a = <<>> ->
                \* an empty text is falsy: no branch of main is taken
                /\ pc' = "done"
                /\ error' = ""
                /\ new_version' = <<>>
                /\ shown' = <<>>
         [] o = "--version" /\ a # <<>> ->
                IF ~parse_version(a).ok THEN Fail("ValueError") ELSE Propagate(a)
         [] o = "--bump" /\ k \in BumpTypes ->
                LET r == bump_version(read_current_version(files), k)
                IN  IF ~r.ok THEN Fail("ValueError") ELSE Propagate(r.val)

update_version_file ==
    /\ UNCHANGED cvars
    /\ pc = "update_version_file"
    /\ files' = [files EXCEPT ![VERSION_FILE] = File(new_version \o <<LF>>)]
    /\ written' = Append(written, VERSION_FILE)
    /\ pc' = StepAfter("update_version_file")
    /\ UNCHANGED <<pre, opt, arg, kind, new_version, error, shown, runs>>

update_version_h ==
    /\ UNCHANGED cvars
    /\ pc = "update_version_h"
    /\ IF files[VERSION_H].exists
       THEN /\ files' = [files EXCEPT ![VERSION_H] =
                            File(version_h_text(new_version, files[VERSION_H].text))]
            /\ written' = Append(written, VERSION_H)
            /\ pc' = StepAfter("update_version_h")
            /\ UNCHANGED error
       ELSE /\ pc' = "error"
            /\ error' = "FileNotFoundError"
            /\ UNCHANGED <<files, written>>
    /\ UNCHANGED <<pre, opt, arg, kind, new_version, shown, runs>>

update_readme ==
    /\ UNCHANGED cvars
    /\ pc = "update_readme"
    /\ IF files[README_FILE].exists
       THEN /\ files' = [files EXCEPT ![README_FILE] =
                            File(readme_text(new_version, files[README_FILE].text))]
            /\ written' = Append(written, README_FILE)
            /\ pc' = StepAfter("update_readme")
            /\ UNCHANGED error
       ELSE /\ pc' = "error"
            /\ error' = "FileNotFoundError"
            /\ UNCHANGED <<files, written>>
    /\ UNCHANGED <<pre, opt, arg, kind, new_version, shown, runs>>

\* Direct calls of the two pure functions.
CallBumpVersion ==
    /\ UNCHANGED cvars
    /\ pc = "call"
    /\ \E k \in UnitKinds :
        LET r == bump_version(arg, k)
        IN  /\ kind' = k
            /\ new_version' = r.val
            /\ error' = IF r.ok THEN "" ELSE "ValueError"
    /\ opt' = "bump_version"
    /\ pc' = "returned"
    /\ UNCHANGED <<files, pre, arg, written, shown, runs>>

\* parse_version followed by the f-string that formats the triple.
CallParseVersion ==
    /\ UNCHANGED cvars
    /\ pc = "call"
    /\ LET r == parse_version(arg)
       IN  /\ new_version' = IF r.ok THEN FormatVersion(r.val[1], r.val[2], r.val[3])
                             ELSE <<>>
           /\ error' = IF r.ok THEN "" ELSE "ValueError"
    /\ opt' = "parse_version"
    /\ pc' = "returned"
    /\ UNCHANGED <<files, pre, arg, kind, written, shown, runs>>

(***************************************************************************)
(* clean_emojis.py: the transformation.                                    *)
(***************************************************************************)
\* The keys of emoji_replacements in insertion order (a key written twice
\* keeps its first place); every value is the empty text.
emoji_replacements ==
    <<
      <<287, 376, 8220, 161>>,   \* line 21
      <<287, 376, 8221>>,   \* line 22
      <<287, 376, 8240>>,   \* line 23
      <<287, 376, 8250, 176, 239, 184>>,   \* line 24
      <<226, 176>>,   \* line 25
      <<287, 376, 8220>>,   \* line 26
      <<287, 376, 338>>,   \* line 27
      <<287, 376, 8217, 172>>,   \* line 28
      <<226, 339, 8230>>,   \* line 29
      <<226, 338>>,   \* line 30
      <<287, 376, 8221, 8249>>,   \* line 31
      <<287, 376, 8220, 352>>,   \* line 32
      <<287, 376, 8220, 8222>>,   \* line 33
      <<287, 376, 353, 167>>,   \* line 34
      <<287, 376, 175>>,   \* line 35
      <<287, 376, 8221, 167>>,   \* line 36
      <<287, 376, 8220, 353>>,   \* line 37
      <<226, 353, 161>>,   \* line 38
      <<287, 376, 376, 161>>,   \* line 39
      <<287, 376, 8221, 8222>>,   \* line 40
      <<287, 376, 8220, 177>>,   \* line 41
      <<287, 376, 8224, 8221>>,   \* line 42
      <<287, 376, 8221, 8217>>,   \* line 43
      <<287, 376, 353, 168>>,   \* line 44
      <<287, 376, 8220, 710>>,   \* line 45
      <<287, 376, 8220, 8240>>,   \* line 46
      <<287, 376, 8217, 190>>,   \* line 47
      <<287, 376, 8221, 338>>,   \* line 48
      <<226, 353, 8482, 239, 184>>,   \* line 49
      <<287, 376, 8250, 161, 239, 184>>,   \* line 50
      <<287, 376, 8220, 8249>>,   \* line 51
      <<287, 376, 168>>,   \* line 52
      <<287, 376, 8221, 8220>>,   \* line 53
      <<287, 376, 8221, 8221>>,   \* line 54
      <<287, 376, 173>>,   \* line 55
      <<287, 376, 170>>,   \* line 56
      <<287, 376, 353, 8364>>,   \* line 57
      <<287, 376, 8217, 161>>,   \* line 58
      <<287, 376, 8221, 165>>,   \* line 59
      <<226, 173>>,   \* line 60
      <<287, 376, 352>>,   \* line 61
      <<287, 376, 710>>,   \* line 62
      <<287, 376>>,   \* line 63
      <<287, 376, 8224, 8226>>,   \* line 64
      <<287, 376, 8217, 175>>,   \* line 66
      <<226, 353, 160, 239, 184>>,   \* line 67
      <<287, 376, 167, 170>>,   \* line 69
      <<287, 376, 8220, 173>>,   \* line 70
      <<287, 376, 8220, 182>>,   \* line 71
      <<287, 376, 8221, 8212>>,   \* line 72
      <<226, 179>>    \* line 73
    >>

\* str.replace(old, ''): the occurrences found left to right, not overlapping.
RECURSIVE Remove(_, _, _)
Remove(s, old, i) ==
    LET starts == {j \in i..Len(s) : StartsAt(s, j, old)}
    IN  IF starts = {} THEN SubSeq(s, i, Len(s))
        ELSE LET m == Min(starts)
             IN  SubSeq(s, i, m - 1) \o Remove(s, old, m + Len(old))

\* The loop over emoji_replacements.items(), from entry k on.
RECURSIVE replace_each_emoji(_, _)
replace_each_emoji(s, k) ==
    IF k > Len(emoji_replacements) THEN s
    ELSE LET r == Remove(s, emoji_replacements[k], 1)
         IN  \* the test makes r a value before the next entry is taken up
             IF Len(r) >= 0 THEN replace_each_emoji(r, k + 1) ELSE r

replace_all_emojis(s) == replace_each_emoji(s, 1)

\* content.split('\n')
RECURSIVE SplitLines(_)
SplitLines(s) ==
    LET n == RunNot(s, 1, LF)
    IN  IF n = Len(s) THEN <<s>>
        ELSE <<SubSeq(s, 1, n)>> \o SplitLines(SubSeq(s, n + 2, Len(s)))

\* '\n'.join(lines)
RECURSIVE JoinLines(_)
JoinLines(parts) ==
    IF Len(parts) = 1 THEN parts[1]
    ELSE parts[1] \o <<LF>> \o JoinLines(Tail(parts))

\* Length of the run of spaces of s that starts at i.
RECURSIVE SpaceRun(_, _)
SpaceRun(s, i) ==
    IF i <= Len(s) /\ s[i] = SPACE THEN 1 + SpaceRun(s, i + 1) ELSE 0

\* re.sub(r'  +', ' ', line)
RECURSIVE collapse_spaces(_, _)
collapse_spaces(line, i) ==
    LET starts == {j \in i..Len(line) : SpaceRun(line, j) >= 2}
    IN  IF starts = {} THEN SubSeq(line, i, Len(line))
        ELSE LET m == Min(starts)
             IN  SubSeq(line, i, m - 1) \o <<SPACE>>
                     \o collapse_spaces(line, m + SpaceRun(line, m))

\* 'ESP_LOG'
LogName == <<69, 83, 80, 95, 76, 79, 71>>
\* '(TAG, "'
LogArgs == <<40, 84, 65, 71, 44, 32, 34>>

\* m.group(0).rstrip(' "')
RECURSIVE RStripSpaceQuote(_)
RStripSpaceQuote(s) ==
    IF s # <<>> /\ s[Len(s)] \in {SPACE, QUOTE}
    THEN RStripSpaceQuote(SubSeq(s, 1, Len(s) - 1)) ELSE s

\* Where a match of r'ESP_LOG[A-Z]\(TAG, "[^"]*\s+"' that starts at i ends, 0
\* if none does: the literal runs to its closing quote, and the character
\* before that quote is whitespace.
LogMatchEnd(line, i) ==
    LET j == i + Len(LogName) + 1 + Len(LogArgs)
        q == j + RunNot(line, j, QUOTE)
    IN  IF /\ StartsAt(line, i, LogName)
           /\ i + Len(LogName) <= Len(line)
           /\ line[i + Len(LogName)] \in 65..90
           /\ StartsAt(line, i + Len(LogName) + 1, LogArgs)
           /\ q <= Len(line)
           /\ q > j
           /\ IsSpace(line[q - 1])
        THEN q ELSE 0

\* re.sub of the log pattern by the rstrip lambda
RECURSIVE trim_log_literal(_, _)
trim_log_literal(line, i) ==
    LET starts == {j \in i..Len(line) : LogMatchEnd(line, j) > 0}
    IN  IF starts = {} THEN SubSeq(line, i, Len(line))
        ELSE LET m == Min(starts)
             IN  SubSeq(line, i, m - 1)
                     \o RStripSpaceQuote(SubSeq(line, m, LogMatchEnd(line, m)))
                     \o <<QUOTE>> \o trim_log_literal(line, LogMatchEnd(line, m) + 1)

clean_line(line) == trim_log_literal(collapse_spaces(line, 1), 1)

\* The text clean_emojis_from_file computes from the text it read.
cleaned_text(text) ==
    LET lines == SplitLines(replace_all_emojis(text))
        cleaned_lines == [k \in 1..Len(lines) |-> clean_line(lines[k])]
    IN  JoinLines(cleaned_lines)

\* open(..., encoding='utf-8', errors='ignore').read(): invalid bytes vanish.
IsValid(c) == c # INVALID
Decode(bytes) == SelectSeq(bytes, IsValid)

(***************************************************************************)
(* clean_emojis.py: paths, files and the contents the model draws from.    *)
(* A path is the sequence of its parts, the last one the extension.        *)
(***************************************************************************)
MainA == <<"main", "a", ".c">>
MainB == <<"main", "b", ".h">>
MainNotes == <<"main", "notes", ".txt">>
GitIgnore == <<".gitignore">>
Copilot == <<".github", "copilot-instructions", ".md">>

extra_files == <<GitIgnore, Copilot>>

backup_path(file_path) == Append(file_path, ".bak")

Originals == {MainA, MainB, MainNotes, GitIgnore, Copilot}
Paths == Originals \cup {backup_path(p) : p \in Originals}

\* os.walk('main') with the endswith(('.c', '.h')) filter.
main_tree_candidates(d) ==
    {p \in Paths : d[p].exists /\ p[1] = "main" /\ p[Len(p)] \in {".c", ".h"}}

\* The files a run processes: the walk's, and the extra files that exist.
Candidates(d) ==
    main_tree_candidates(d)
        \cup {extra_files[k] : k \in {j \in 1..Len(extra_files) : d[extra_files[j]].exists}}

\* The two characters of the table's fifth glyph.
GlyphAlphabet == {226, 176}
BodyAlphabet == {SPACE, QUOTE, 97}

\* 'ESP_LOGI(TAG, "'
LogHead == LogName \o <<73>> \o LogArgs

\* "a" + the fifth glyph + two spaces + "b"
ContentGlyphSpaces == <<97>> \o emoji_replacements[5] \o <<SPACE, SPACE, 98>>
\* a log literal that a line break cuts: 'ESP_LOGI(TAG, "a' + "\n" + ' "'
ContentCutLiteral == LogHead \o <<97, LF, SPACE, QUOTE>>

ContentsA ==
    TextsOver(GlyphAlphabet, MaxGlyphLen)
        \cup {LogHead \o b : b \in TextsOver(BodyAlphabet, MaxBodyLen)}
        \cup {ContentGlyphSpaces, ContentCutLiteral}
\* "a  " + an invalid byte + "b"
ContentB == <<97, SPACE, SPACE, INVALID, 98>>
\* "build/\n"
ContentGitIgnore == <<98, 117, 105, 108, 100, 47, 10>>
\* the first glyph of the table, then " ok": notes.txt is no candidate
ContentNotes == emoji_replacements[1] \o <<SPACE, 111, 107>>

NoOutcome == [p \in Originals |-> "none"]

(***************************************************************************)
(* clean_emojis.py: a run as a state machine.                              *)
(***************************************************************************)
copy2_nothing(d, src, dst) == d

\* shutil.copy2(src, dst)
copy2(d, src, dst) == [d EXCEPT ![dst] = d[src]]

except_reraise == "aborted"

\* except Exception: print the error and return False; main's loop goes on.
except_handler == "walk"

Forget ==
    /\ cur' = <<>>
    /\ content' = <<>>
    /\ original_content' = <<>>

\* main(): a run starts; os.walk lists the tree.
clean_emojis_main ==
    /\ UNCHANGED vvars
    /\ cpc \in {"idle", "done"}
    /\ cruns < MaxCleanRuns
    /\ cruns' = cruns + 1
    /\ start' = disk
    /\ todo' = main_tree_candidates(disk)
    /\ extra_idx' = 1
    /\ files_cleaned' = 0
    /\ prev_outcome' = outcome
    /\ outcome' = NoOutcome
    /\ cpc' = "walk"
    /\ Forget
    /\ UNCHANGED <<disk, faults>>

\* The walk yields the next file; the order within the tree is the
\* directory listing's, which is arbitrary.
WalkMain ==
    /\ UNCHANGED vvars
    /\ cpc = "walk"
    /\ todo # {}
    /\ \E p \in todo :
        /\ cur' = p
        /\ todo' = todo \ {p}
    /\ cpc' = "backup"
    /\ UNCHANGED <<disk, start, extra_idx, content, original_content, outcome,
                   prev_outcome, files_cleaned, cruns, faults>>

\* for file_path in extra_files: if os.path.exists(file_path)
NextExtra ==
    /\ UNCHANGED vvars
    /\ cpc = "walk"
    /\ todo = {}
    /\ extra_idx <= Len(extra_files)
    /\ extra_idx' = extra_idx + 1
    /\ IF disk[extra_files[extra_idx]].exists
       THEN cur' = extra_files[extra_idx] /\ cpc' = "backup"
       ELSE UNCHANGED <<cur, cpc>>
    /\ UNCHANGED <<disk, start, todo, content, original_content, outcome,
                   prev_outcome, files_cleaned, cruns, faults>>

\* The final count is printed.
Summary ==
    /\ UNCHANGED vvars
    /\ cpc = "walk"
    /\ todo = {}
    /\ extra_idx > Len(extra_files)
    /\ cpc' = "done"
    /\ UNCHANGED <<disk, start, todo, extra_idx, cur, content, original_content,
                   outcome, prev_outcome, files_cleaned, cruns, faults>>

\* An I/O call of clean_emojis_from_file raises.
Except ==
    /\ faults < MaxFaults
    /\ faults' = faults + 1
    /\ outcome' = [outcome EXCEPT ![cur] = "error"]
    /\ cpc' = except_handler
    /\ Forget
    /\ UNCHANGED <<start, todo, extra_idx, prev_outcome, files_cleaned, cruns>>

Backup ==
    /\ UNCHANGED vvars
    /\ cpc = "backup"
    /\ \/ /\ disk' = copy2(disk, cur, backup_path(cur))
          /\ cpc' = "read"
          /\ UNCHANGED <<start, todo, extra_idx, cur, content, original_content,
                         outcome, prev_outcome, files_cleaned, cruns, faults>>
       \/ /\ Except
          /\ UNCHANGED disk

\* The file is read and the new text computed.
Read ==
    /\ UNCHANGED vvars
    /\ cpc = "read"
    /\ \/ /\ original_content' = Decode(disk[cur].text)
          /\ content' = cleaned_text(Decode(disk[cur].text))
          /\ cpc' = "write"
          /\ UNCHANGED <<disk, start, todo, extra_idx, cur, outcome, prev_outcome,
                         files_cleaned, cruns, faults>>
       \/ /\ Except
          /\ UNCHANGED disk

\* if content != original_content: write and return True; else return False.
Write ==
    /\ UNCHANGED vvars
    /\ cpc = "write"
    /\ \/ /\ content # original_content
          /\ disk' = [disk EXCEPT ![cur] = File(content)]
          /\ outcome' = [outcome EXCEPT ![cur] = "cleaned"]
          /\ files_cleaned' = files_cleaned + 1
          /\ cpc' = "walk"
          /\ Forget
          /\ UNCHANGED <<start, todo, extra_idx, prev_outcome, cruns, faults>>
       \/ /\ content = original_content
          /\ outcome' = [outcome EXCEPT ![cur] = "unchanged"]
          /\ cpc' = "walk"
          /\ Forget
          /\ UNCHANGED <<disk, start, todo, extra_idx, prev_outcome, files_cleaned,
                         cruns, faults>>
       \/ \* open(file_path, 'w') raises: the file is as it was
          /\ content # original_content
          /\ Except
          /\ UNCHANGED disk
       \/ \* f.write raises: open has already truncated the file
          /\ content # original_content
          /\ Except
          /\ disk' = [disk EXCEPT ![cur] = File(<<>>)]

(***************************************************************************)
(* Specifications.                                                         *)
(***************************************************************************)
VersionAtRest ==
    /\ files = [t \in Targets |-> Missing]
    /\ pre = [t \in Targets |-> Missing]
    /\ pc = "idle"
    /\ opt = ""
    /\ arg = <<>>
    /\ kind = ""
    /\ new_version = <<>>
    /\ error = ""
    /\ written = <<>>
    /\ shown = <<>>
    /\ runs = 0

CleanerAtRest ==
    /\ disk = [p \in Paths |-> Missing]
    /\ start = [p \in Paths |-> Missing]
    /\ cpc = "idle"
    /\ todo = {}
    /\ extra_idx = 1
    /\ cur = <<>>
    /\ content = <<>>
    /\ original_content = <<>>
    /\ outcome = NoOutcome
    /\ prev_outcome = NoOutcome
    /\ files_cleaned = 0
    /\ cruns = 0
    /\ faults = 0

\* The version synchronizer, invoked again and again.
VersionInit ==
    /\ \E v \in InitVersionFiles, h \in InitHeaders, r \in InitReadmes :
          files = [t \in Targets |->
                      IF t = VERSION_FILE THEN v ELSE IF t = VERSION_H THEN h ELSE r]
    /\ pre = files
    /\ pc = "idle"
    /\ opt = ""
    /\ arg = <<>>
    /\ kind = ""
    /\ new_version = <<>>
    /\ error = ""
    /\ written = <<>>
    /\ shown = <<>>
    /\ runs = 0
    /\ CleanerAtRest

Invoke ==
    \E o \in Options : \E a \in (IF o = "--version" THEN VersionArgs ELSE {<<>>}) :
        \E k \in (IF o = "--bump" THEN BumpArgs ELSE {""}) : main(o, a, k)

VersionNext ==
    \/ Invoke
    \/ update_version_file
    \/ update_version_h
    \/ update_readme

SpecVersion == VersionInit /\ [][VersionNext]_vars

\* Direct calls of bump_version and parse_version.
UnitInit ==
    /\ files = [t \in Targets |-> Missing]
    /\ pre = files
    /\ pc = "call"
    /\ opt = ""
    /\ arg \in UnitTexts
    /\ kind = ""
    /\ new_version = <<>>
    /\ error = ""
    /\ written = <<>>
    /\ shown = <<>>
    /\ runs = 0
    /\ CleanerAtRest

UnitNext ==
    \/ CallBumpVersion
    \/ CallParseVersion

SpecUnit == UnitInit /\ [][UnitNext]_vars

\* The emoji cleaner, run again and again.
CleanerInit ==
    /\ \E a \in ContentsA :
          disk = [p \in Paths |->
                     IF p = MainA THEN File(a)
                     ELSE IF p = MainB THEN File(ContentB)
                     ELSE IF p = MainNotes THEN File(ContentNotes)
                     ELSE IF p = GitIgnore THEN File(ContentGitIgnore)
                     ELSE Missing]
    /\ start = disk
    /\ cpc = "idle"
    /\ todo = {}
    /\ extra_idx = 1
    /\ cur = <<>>
    /\ content = <<>>
    /\ original_content = <<>>
    /\ outcome = NoOutcome
    /\ prev_outcome = NoOutcome
    /\ files_cleaned = 0
    /\ cruns = 0
    /\ faults = 0
    /\ VersionAtRest

CleanerNext ==
    \/ clean_emojis_main
    \/ WalkMain
    \/ NextExtra
    \/ Summary
    \/ Backup
    \/ Read
    \/ Write

SpecCleaner == CleanerInit /\ [][CleanerNext]_vars

(***************************************************************************)
(* Properties of the version synchronizer.                                 *)
(***************************************************************************)
\* Exactly three dot-separated non-negative integers, and nothing else.
IsThreeIntegers(s) ==
    LET g == SplitDots(s)
    IN  Len(g) = 3 /\ \A k \in 1..3 : IsDigits(g[k])

\* Three dot-separated ASCII decimal numerals without leading zeros.
IsCanonicalVersion(s) ==
    LET g == SplitDots(s)
    IN  /\ Len(g) = 3
        /\ \A k \in 1..3 :
              /\ g[k] # <<>>
              /\ \A j \in 1..Len(g[k]) : g[k][j] \in ZERO..(ZERO + 9)
              /\ Len(g[k]) > 1 => g[k][1] # ZERO

\* The version text the invocation works from.
SuppliedVersion ==
    IF opt = "--version" THEN arg
    ELSE IF pre[VERSION_FILE].exists THEN Strip(pre[VERSION_FILE].text)
    ELSE <<ZERO, DOT, ZERO, DOT, ZERO>>

\* The triple the canonical store of fs holds ((0, 0, 0) when it is absent).
StoreTriple(fs) ==
    LET g == SplitDots(IF fs[VERSION_FILE].exists THEN Strip(fs[VERSION_FILE].text)
                       ELSE <<ZERO, DOT, ZERO, DOT, ZERO>>)
    IN  <<ToInt(g[1]), ToInt(g[2]), ToInt(g[3])>>

LexLess(a, b) ==
    \/ a[1] < b[1]
    \/ a[1] = b[1] /\ a[2] < b[2]
    \/ a[1] = b[1] /\ a[2] = b[2] /\ a[3] < b[3]

\* The numbers the definitions named by prefix hold in text.
DefinedNumbers(text, prefix) ==
    {SubSeq(text, j + Len(prefix), j + Len(prefix) + DigitRun(text, j + Len(prefix)) - 1) :
        j \in {i \in 1..Len(text) :
                  StartsAt(text, i, prefix) /\ DigitRun(text, i + Len(prefix)) > 0}}

\* The texts the quoted definitions named by prefix hold in text.
DefinedStrings(text, prefix) ==
    {SubSeq(text, j + Len(prefix), j + Len(prefix) + RunNot(text, j + Len(prefix), QUOTE) - 1) :
        j \in {i \in 1..Len(text) :
                  /\ StartsAt(text, i, prefix)
                  /\ i + Len(prefix) + RunNot(text, i + Len(prefix), QUOTE) <= Len(text)}}

\* The version segments of the badges of text.
BadgeVersions(text) ==
    {SubSeq(text, j + Len(BadgeHead),
            j + Len(BadgeHead) + RunNot(text, j + Len(BadgeHead), DASH) - 1) :
        j \in {i \in 1..Len(text) :
                  /\ StartsAt(text, i, BadgeHead)
                  /\ RunNot(text, i + Len(BadgeHead), DASH) > 0
                  /\ StartsAt(text, i + Len(BadgeHead)
                                      + RunNot(text, i + Len(BadgeHead), DASH), BadgeTail)}}

Propagated ==
    pc = "done" /\ opt \in {"--version", "--bump"} /\ new_version # <<>>

\* C1: a version text that is not exactly three dot-separated non-negative
\* integers, given to --version or read from the store for --bump, ends the
\* invocation with a ValueError and no target is written.
C1_MalformedRejected ==
    (/\ pc \notin {"idle", "call", "returned"}
     /\ \/ opt = "--version"
        \/ opt = "--bump" /\ kind \in BumpTypes
     /\ ~IsThreeIntegers(SuppliedVersion))
    => (pc = "error" /\ error = "ValueError" /\ written = <<>> /\ files = pre)

\* C2: bump_version of a valid version (major, minor, patch) gives
\* (major+1, 0, 0) for 'major', (major, minor+1, 0) for 'minor',
\* (major, minor, patch+1) for 'patch', and raises for any other kind.
C2_BumpComputes ==
    (pc = "returned" /\ opt = "bump_version" /\ parse_version(arg).ok)
    => LET v == parse_version(arg).val
           r == parse_version(new_version)
       IN  CASE kind = "major" -> error = "" /\ r.ok /\ r.val = <<v[1] + 1, 0, 0>>
             [] kind = "minor" -> error = "" /\ r.ok /\ r.val = <<v[1], v[2] + 1, 0>>
             [] kind = "patch" -> error = "" /\ r.ok /\ r.val = <<v[1], v[2], v[3] + 1>>
             [] OTHER -> error = "ValueError"

C2_Witness ==
    /\ pc = "returned"
    /\ opt = "bump_version"
    /\ kind = "major"
    /\ error = ""
    /\ parse_version(arg).ok
    /\ parse_version(arg).val[2] > 0
    /\ parse_version(arg).val[3] > 0

\* C3 as stated: every text parse_version accepts is what formatting its
\* triple gives back.
C3_RoundTripAccepted ==
    (pc = "returned" /\ opt = "parse_version" /\ error = "") => new_version = arg

\* C3 amended: a text of three dot-separated ASCII decimal numerals without
\* leading zeros is accepted, and formatting its triple gives it back.
C3_RoundTripCanonical ==
    (pc = "returned" /\ opt = "parse_version" /\ IsCanonicalVersion(arg))
    => (error = "" /\ new_version = arg)

C3_Witness ==
    /\ pc = "returned"
    /\ opt = "parse_version"
    /\ IsCanonicalVersion(arg)
    /\ Len(arg) > 5
    /\ new_version = arg

\* C4: a --bump invocation that completes leaves the canonical store holding
\* a triple strictly greater, in lexicographic order, than the one it held
\* when the invocation started (an absent store counting as 0.0.0).
C4_BumpAdvances ==
    (pc = "done" /\ opt = "--bump")
    => /\ pre[VERSION_FILE].exists => IsThreeIntegers(Strip(pre[VERSION_FILE].text))
       /\ files[VERSION_FILE].exists
       /\ IsThreeIntegers(Strip(files[VERSION_FILE].text))
       /\ LexLess(StoreTriple(pre), StoreTriple(files))

C4_Witness ==
    /\ pc = "done"
    /\ opt = "--bump"
    /\ kind = "minor"
    /\ runs = MaxRuns
    /\ StoreTriple(pre)[3] > 0
    /\ files[VERSION_FILE] # pre[VERSION_FILE]

\* C9: the targets are written in the order store, constants file,
\* documentation file; when a step fails the invocation stops, no later
\* target is written, and the targets written before keep the new version.
C9_OrderedNoRollback ==
    LET order == <<VERSION_FILE, VERSION_H, README_FILE>>
    IN  /\ Len(written) <= 3
        /\ \A k \in 1..Len(written) : written[k] = order[k]
        /\ \A k \in (Len(written) + 1)..3 : files[order[k]] = pre[order[k]]
        /\ Len(written) >= 1 => files[VERSION_FILE] = File(new_version \o <<LF>>)
        /\ Len(written) >= 2 =>
              DefinedStrings(files[VERSION_H].text, DefineString) \subseteq {new_version}
        /\ (pc = "error" /\ error = "FileNotFoundError") =>
              /\ Len(written) \in {1, 2}
              /\ ~files[order[Len(written) + 1]].exists

C9_Witness ==
    /\ pc = "error"
    /\ error = "FileNotFoundError"
    /\ written = <<VERSION_FILE, VERSION_H>>
    /\ files[VERSION_FILE] # pre[VERSION_FILE]
    /\ DefinedStrings(files[VERSION_H].text, DefineString) = {new_version}
    /\ DefinedStrings(pre[VERSION_H].text, DefineString) # {new_version}

HoldsEverywhere(found, value) == found = {value}

Replaced(before, now, value) ==
    /\ now \subseteq {value}
    /\ before # {} <=> now # {}

C5_BackupBeforeTouch ==
    /\ cpc \in {"read", "write"} => disk[backup_path(cur)] = start[cur]
    /\ \A p \in Originals :
          /\ disk[p] # start[p] => disk[backup_path(p)] = start[p]
          /\ outcome[p] \in {"cleaned", "unchanged"} => disk[backup_path(p)] = start[p]

C5_Witness ==
    /\ cpc = "done"
    /\ outcome[MainB] = "cleaned"
    /\ disk[MainB] # start[MainB]
    /\ outcome[GitIgnore] = "unchanged"
    /\ disk[backup_path(GitIgnore)] = start[GitIgnore]

\* C6: a backup that an earlier run created is still there, with the content
\* it was created with.
C6_BackupsKept ==
    \A p \in Originals :
        start[backup_path(p)].exists => disk[backup_path(p)] = start[backup_path(p)]

\* C7: a file that the previous run processed to the end is not rewritten,
\* and not reported as cleaned, by the next run.
C7_SecondRunChangesNothing ==
    \A p \in Originals :
        prev_outcome[p] \in {"cleaned", "unchanged"} => outcome[p] # "cleaned"

\* C8: a failure while one file is processed is caught: the file is not
\* counted as cleaned, the loop goes on, and when the run ends every
\* candidate has been processed and the count is that of the files cleaned.
C8_FailureIsolated ==
    /\ cpc \in {"idle", "walk", "backup", "read", "write", "done"}
    /\ files_cleaned = Cardinality({p \in Originals : outcome[p] = "cleaned"})
    /\ \A p \in Originals \ Candidates(start) : outcome[p] = "none"
    /\ cpc = "done" => \A p \in Candidates(start) : outcome[p] # "none"

C8_Witness ==
    /\ cpc = "done"
    /\ faults > 0
    /\ \E p \in main_tree_candidates(start) : outcome[p] = "error"
    /\ \E p \in main_tree_candidates(start) : outcome[p] = "cleaned"
    /\ outcome[GitIgnore] = "unchanged"
    /\ files_cleaned = 1

====
